---- MODULE Spec2Model ----
(***************************************************************************)
(* web-nexus-cms: the replicated state container (crate web_nexus_state,   *)
(* src/state/src/lib.rs): AppState, its mutation API, its merge and its    *)
(* sync status.                                                            *)
(*                                                                         *)
(* The specifications share the variables:                                 *)
(*   Spec       a replica created by AppState::new() or loaded from local  *)
(*              storage, driven by any sequence of mutations, mark_syncing *)
(*              and merges of snapshots pulled from the edge;              *)
(*   SpecMerge  a replica loaded from local storage into which two foreign *)
(*              snapshots are merged one after the other;                  *)
(*   SpecApi    the replica of an ApiState (src/api/src/lib.rs), driven by *)
(*              any sequence of the writing operations of the API layer;   *)
(*   SpecLock   request handlers calling the operations of one ApiState    *)
(*              concurrently, each operation taking the lock around the    *)
(*              replica;                                                   *)
(*   SpecSync   one sync attempt: mark_syncing, possibly a local mutation  *)
(*              while the snapshot is pulled, then the merge;              *)
(*   SpecCodec  a replica encoded by serialize_state and decoded again by  *)
(*              deserialize_state, and malformed documents decoded;        *)
(*   SpecHandlers  two requests (PUT or DELETE /api/shows/:id, or a call   *)
(*              of update_post or delete_post) handled concurrently.       *)
(***************************************************************************)
EXTENDS Integers, Sequences, FiniteSets, TLC

VARIABLES
    state,  \* the replica: one AppState value
    hist,   \* the operations applied so far, oldest first: what was called,
            \* with which argument, on which AppState, and how it ended
    focus,  \* the family the snapshots of this run come from
    lock,   \* SpecLock, SpecHandlers: who holds the RwLock around the replica
    pc      \* SpecLock, SpecHandlers: where each request handler is

vars == <<state, hist, focus, lock, pc>>

----------------------------------------------------------------------------
(* Bounds of the model.                                                    *)

\* the longest sequence of operations Spec applies to a replica
MaxOps == 2
\* entity timestamps (created_at, updated_at, uploaded_at, published_at)
\* range over 1..MaxTime
MaxTime == 2

\* Clock = u64: the largest clock value.  u64::MAX itself is outside TLC's
\* integers; the model keeps the one property of it the code depends on,
\* that it is the value at which `clock += 1` overflows, and no sequence of
\* MaxOps increments reaches it from a small clock.
ClockMax == 2147483647

Ids == {"e1", "e2", "e3"}
PairIds == {"e1", "e2"}
Vals == {"A", "B"}
Times == 1..MaxTime
\* what chrono::Utc::now().timestamp() may return when a merge runs
WallTimes == {100, 101}

Kinds == {"sites", "shows", "songs", "photos", "videos", "posts", "users"}

----------------------------------------------------------------------------
(* Entity records (crate web_nexus_contracts).  Each keeps its identifier, *)
(* its site reference, its timestamps and one content field standing for   *)
(* the remaining domain fields, which the state crate never reads.         *)

SiteOf(v) == IF v = "A" THEN "s1" ELSE "s2"

Site(id, v, t) == [id |-> id, name |-> v, created_at |-> t]

Show(id, v, t) ==
    [id |-> id, site_id |-> SiteOf(v), venue |-> v,
     created_at |-> 1, updated_at |-> t]

Song(id, v, t) ==
    [id |-> id, site_id |-> SiteOf(v), title |-> v, created_at |-> t]

Photo(id, v, t) ==
    [id |-> id, site_id |-> SiteOf(v), caption |-> v, uploaded_at |-> t]

Video(id, v, t) ==
    [id |-> id, site_id |-> SiteOf(v), title |-> v, published_at |-> t]

BlogPost(id, v, t) ==
    [id |-> id, site_id |-> SiteOf(v), title |-> v,
     created_at |-> 1, updated_at |-> t]

User(id, v, t) == [id |-> id, name |-> v, created_at |-> t]

RecOf(kind, id, v, t) ==
    CASE kind = "sites"  -> Site(id, v, t)
      [] kind = "shows"  -> Show(id, v, t)
      [] kind = "songs"  -> Song(id, v, t)
      [] kind = "photos" -> Photo(id, v, t)
      [] kind = "videos" -> Video(id, v, t)
      [] kind = "posts"  -> BlogPost(id, v, t)
      [] kind = "users"  -> User(id, v, t)

\* the records of one kind with identifiers in D and content in V
Recs(kind, D, V) == {RecOf(kind, id, v, t) : id \in D, v \in V, t \in Times}

----------------------------------------------------------------------------
(* HashMap<String, T>: a function from the keys present to their records.  *)

EmptyMap == << >>

Insert(m, k, v) == [i \in (DOMAIN m) \cup {k} |-> IF i = k THEN v ELSE m[i]]

Remove(m, k) == [i \in (DOMAIN m) \ {k} |-> m[i]]

----------------------------------------------------------------------------
(* SyncStatus and Option<i64>.                                             *)

Synced == <<"Synced">>
Pending == <<"Pending">>
Syncing == <<"Syncing">>
Failed(reason) == <<"Failed", reason>>

Statuses == {Synced, Pending, Syncing, Failed("timeout")}

None == << >>
Some(x) == <<x>>

----------------------------------------------------------------------------
(* AppState.                                                               *)

\* mutant: a new replica starts out Pending
AppState_new_pending ==
    [sites |-> EmptyMap, shows |-> EmptyMap, songs |-> EmptyMap,
     photos |-> EmptyMap, videos |-> EmptyMap, posts |-> EmptyMap,
     users |-> EmptyMap,
     sync_status |-> Pending, last_sync |-> None, clock |-> 0]

AppState_new ==
    [sites |-> EmptyMap, shows |-> EmptyMap, songs |-> EmptyMap,
     photos |-> EmptyMap, videos |-> EmptyMap, posts |-> EmptyMap,
     users |-> EmptyMap,
     sync_status |-> Synced, last_sync |-> None, clock |-> 0]

\* impl Default for AppState
AppState_default == AppState_new

----------------------------------------------------------------------------
(* AppState::merge.  Each loop visits every entry of the other state's map *)
(* once; a HashMap holds each key once, and the body for one key reads and *)
(* writes only that key's entry, so the order of the visit (unspecified    *)
(* for a HashMap) cannot change the result and the model fixes one.        *)

\* the body of `for (id, site) in other.sites`
merge_site(sites, id, site) ==
    IF id \in DOMAIN sites
    THEN IF site.created_at > sites[id].created_at
         THEN Insert(sites, id, site)
         ELSE sites
    ELSE Insert(sites, id, site)

\* mutant: ties go to the foreign record
merge_show_ge(shows, id, show) ==
    IF id \in DOMAIN shows
    THEN IF show.updated_at >= shows[id].updated_at
         THEN Insert(shows, id, show)
         ELSE shows
    ELSE Insert(shows, id, show)

\* mutant: the else branch is missing, a show absent locally is not inserted
merge_show_no_insert(shows, id, show) ==
    IF id \in DOMAIN shows
    THEN IF show.updated_at > shows[id].updated_at
         THEN Insert(shows, id, show)
         ELSE shows
    ELSE shows

\* mutant: a show absent locally counts as deleted and is not taken back
merge_show_absent_deleted(shows, id, show) ==
    IF id \in DOMAIN shows
    THEN IF show.updated_at > shows[id].updated_at
         THEN Insert(shows, id, show)
         ELSE shows
    ELSE shows

\* the body of `for (id, show) in other.shows`
merge_show(shows, id, show) ==
    IF id \in DOMAIN shows
    THEN IF show.updated_at > shows[id].updated_at
         THEN Insert(shows, id, show)
         ELSE shows
    ELSE Insert(shows, id, show)

\* mutant: songs merged last-writer-wins on created_at, like sites
merge_song_lww(songs, id, song) ==
    IF id \in DOMAIN songs
    THEN IF song.created_at > songs[id].created_at
         THEN Insert(songs, id, song)
         ELSE songs
    ELSE Insert(songs, id, song)

\* the body of `for (id, song) in other.songs`
merge_song(songs, id, song) == Insert(songs, id, song)

\* the body of `for (id, photo) in other.photos`
merge_photo(photos, id, photo) == Insert(photos, id, photo)

\* the body of `for (id, video) in other.videos`
merge_video(videos, id, video) == Insert(videos, id, video)

\* the body of `for (id, post) in other.posts`
merge_post(posts, id, post) ==
    IF id \in DOMAIN posts
    THEN IF post.updated_at > posts[id].updated_at
         THEN Insert(posts, id, post)
         ELSE posts
    ELSE Insert(posts, id, post)

\* the body of `for (id, user) in other.users`
merge_user(users, id, user) == Insert(users, id, user)

merge_entry(kind, map, id, rec) ==
    CASE kind = "sites"  -> merge_site(map, id, rec)
      [] kind = "shows"  -> merge_show(map, id, rec)
      [] kind = "songs"  -> merge_song(map, id, rec)
      [] kind = "photos" -> merge_photo(map, id, rec)
      [] kind = "videos" -> merge_video(map, id, rec)
      [] kind = "posts"  -> merge_post(map, id, rec)
      [] kind = "users"  -> merge_user(map, id, rec)

\* one `for (id, x) in other.<kind>` loop: todo holds the keys not yet visited
RECURSIVE merge_loop(_, _, _, _)
merge_loop(kind, map, other, todo) ==
    IF todo = {}
    THEN map
    ELSE LET id == CHOOSE k \in todo : TRUE
         IN  merge_loop(kind, merge_entry(kind, map, id, other[id]),
                        other, todo \ {id})

Max(a, b) == IF a >= b THEN a ELSE b

\* mutant: the receive rule of a Lamport clock, max + 1 (wrapping)
merge_clock_lamport(clock, other_clock) ==
    IF Max(clock, other_clock) = ClockMax THEN 0 ELSE Max(clock, other_clock) + 1

\* mutant: the clock of the snapshot replaces the local one
merge_clock_foreign(clock, other_clock) == other_clock

\* mutant: the local clock is kept
merge_clock_local(clock, other_clock) == clock

\* self.clock = self.clock.max(other.clock)
merge_clock(clock, other_clock) == Max(clock, other_clock)

\* AppState::merge(&mut self, other); now is what Utc::now().timestamp()
\* returns
merge(self, other, now) ==
    [sites  |-> merge_loop("sites", self.sites, other.sites, DOMAIN other.sites),
     shows  |-> merge_loop("shows", self.shows, other.shows, DOMAIN other.shows),
     songs  |-> merge_loop("songs", self.songs, other.songs, DOMAIN other.songs),
     photos |-> merge_loop("photos", self.photos, other.photos, DOMAIN other.photos),
     videos |-> merge_loop("videos", self.videos, other.videos, DOMAIN other.videos),
     posts  |-> merge_loop("posts", self.posts, other.posts, DOMAIN other.posts),
     users  |-> merge_loop("users", self.users, other.users, DOMAIN other.users),
     clock  |-> merge_clock(self.clock, other.clock),
     sync_status |-> Synced,
     last_sync |-> Some(now)]

----------------------------------------------------------------------------
(* The mutation API.                                                       *)

\* `self.clock += 1` on a u64.  Below u64::MAX it adds one.  At u64::MAX the
\* outcome depends on the build: with overflow checks (the debug profile)
\* the addition panics before anything else of the method has run, without
\* them (the release profile) it wraps to 0.
clock_incr(clock) ==
    IF clock < ClockMax
    THEN {[panic |-> FALSE, clock |-> clock + 1]}
    ELSE {[panic |-> TRUE, clock |-> clock], [panic |-> FALSE, clock |-> 0]}

\* mutant: the status is moved to Pending from Synced only
mutation_from_synced(self, kind, write) ==
    {IF o.panic
     THEN [state |-> self, result |-> "panic"]
     ELSE [state |-> [self EXCEPT !.clock = o.clock,
                                  ![kind] = write,
                                  !.sync_status =
                                      IF @ = Synced THEN Pending ELSE @],
           result |-> "Ok"]
     : o \in clock_incr(self.clock)}

\* mutant: a mutation forgets when the replica was last synced
mutation_clears_last_sync(self, kind, write) ==
    {IF o.panic
     THEN [state |-> self, result |-> "panic"]
     ELSE [state |-> [self EXCEPT !.clock = o.clock,
                                  ![kind] = write,
                                  !.sync_status = Pending,
                                  !.last_sync = None],
           result |-> "Ok"]
     : o \in clock_incr(self.clock)}

\* the outcome of a mutation whose write to its collection is `write`:
\* clock += 1; the write; sync_status = Pending; Ok(())
mutation(self, kind, write) ==
    {IF o.panic
     THEN [state |-> self, result |-> "panic"]
     ELSE [state |-> [self EXCEPT !.clock = o.clock,
                                  ![kind] = write,
                                  !.sync_status = Pending],
           result |-> "Ok"]
     : o \in clock_incr(self.clock)}

add_show(self, show) ==
    mutation(self, "shows", Insert(self.shows, show.id, show))

\* mutant: update refuses a show whose id is not in the collection
update_show_existing(self, show) ==
    IF show.id \in DOMAIN self.shows
    THEN mutation(self, "shows", Insert(self.shows, show.id, show))
    ELSE {[state |-> self, result |-> "NotFound"]}

update_show(self, show) ==
    mutation(self, "shows", Insert(self.shows, show.id, show))

\* mutant: delete reports a show id that is not in the collection
delete_show_checked(self, show_id) ==
    IF show_id \in DOMAIN self.shows
    THEN mutation(self, "shows", Remove(self.shows, show_id))
    ELSE {[state |-> self, result |-> "NotFound"]}

delete_show(self, show_id) ==
    mutation(self, "shows", Remove(self.shows, show_id))

add_song(self, song) ==
    mutation(self, "songs", Insert(self.songs, song.id, song))

update_song(self, song) ==
    mutation(self, "songs", Insert(self.songs, song.id, song))

add_photo(self, photo) ==
    mutation(self, "photos", Insert(self.photos, photo.id, photo))

add_post(self, post) ==
    mutation(self, "posts", Insert(self.posts, post.id, post))

\* mutant: a replica whose sync is in flight still asks for a sync
needs_sync_in_flight(self) == self.sync_status \in {Pending, Syncing}

needs_sync(self) == self.sync_status = Pending

\* HashMap::values(): the records of a map in the order the iteration
\* happens to visit them, which the HashMap does not fix
Orders(S) ==
    {o \in [1..Cardinality(S) -> S] :
        \A i, j \in 1..Cardinality(S) : o[i] = o[j] => i = j}

values(map) ==
    {[i \in 1..Cardinality(DOMAIN map) |-> map[o[i]]] : o \in Orders(DOMAIN map)}

\* .filter(|r| r.site_id == site_id).cloned().collect()
filter_site(recs, site_id) == SelectSeq(recs, LAMBDA r : r.site_id = site_id)

\* mutant: every show is returned, whatever its site
get_site_shows_unfiltered(self, site_id) == values(self.shows)

\* the Vecs a call may return, one per iteration order
get_site_shows(self, site_id) ==
    {filter_site(recs, site_id) : recs \in values(self.shows)}

get_site_songs(self, site_id) ==
    {filter_site(recs, site_id) : recs \in values(self.songs)}

get_site_photos(self, site_id) ==
    {filter_site(recs, site_id) : recs \in values(self.photos)}

\* mutant: the status is set to Synced
mark_syncing_synced(self) == [self EXCEPT !.sync_status = Synced]

\* mutant: a sync attempt does not begin on a Synced replica
mark_syncing_guarded(self) ==
    IF self.sync_status = Synced
    THEN self
    ELSE [self EXCEPT !.sync_status = Syncing]

mark_syncing(self) == [self EXCEPT !.sync_status = Syncing]

----------------------------------------------------------------------------
(* The AppState values the model starts from and merges.  AppState derives *)
(* Deserialize and its fields are public, so a replica loaded from local   *)
(* storage and a snapshot pulled from the edge may hold any collections,   *)
(* any status and any clock.                                               *)

\* the maps of one kind over a subset of the keys D with content in V, each
\* record filed under its own id
MapsOf(kind, D, V) ==
    UNION {{m \in [S -> Recs(kind, S, V)] : \A i \in S : m[i].id = i}
           : S \in SUBSET D}

\* an AppState holding records of one kind only
WithKind(kind, map, clock, status, last_sync) ==
    [AppState_new EXCEPT ![kind] = map, !.clock = clock,
                         !.sync_status = status, !.last_sync = last_sync]

\* an AppState holding, in every collection, the same keys D with content v
\* and timestamp t
Uniform(D, v, t, clock, status, last_sync) ==
    [sites  |-> [i \in D |-> Site(i, v, t)],
     shows  |-> [i \in D |-> Show(i, v, t)],
     songs  |-> [i \in D |-> Song(i, v, t)],
     photos |-> [i \in D |-> Photo(i, v, t)],
     videos |-> [i \in D |-> Video(i, v, t)],
     posts  |-> [i \in D |-> BlogPost(i, v, t)],
     users  |-> [i \in D |-> User(i, v, t)],
     sync_status |-> status, last_sync |-> last_sync, clock |-> clock]

MetaClocks == {0, 2, ClockMax}

Families == Kinds \cup {"all", "meta"}

\* what LocalStorage::load may return, by family: the stored content is "A",
\* the edge holds the same content or the changed content "B"
StoredReplicas(f) ==
    CASE f \in Kinds ->
           {WithKind(f, m, 1, Pending, None) : m \in MapsOf(f, PairIds, {"A"})}
      [] f = "all" ->
           {Uniform(D, "A", t, 1, Pending, None)
            : D \in SUBSET Ids, t \in Times}
      [] f = "meta" ->
           {WithKind("shows", EmptyMap, c, s, l)
            : c \in MetaClocks, s \in Statuses, l \in {None, Some(99)}}
      [] f = "main" ->
           {AppState_new,
            Uniform({"e1"}, "A", 1, 1, Failed("timeout"), Some(99))}

\* what EdgeSync::sync_from_edge may return, by family
EdgeSnapshots(f) ==
    CASE f \in Kinds ->
           {WithKind(f, m, 1, Synced, None) : m \in MapsOf(f, PairIds, Vals)}
      [] f = "all" ->
           {Uniform(D, v, t, 1, Synced, None)
            : D \in SUBSET Ids, v \in Vals, t \in Times}
      [] f = "meta" ->
           {WithKind("shows", EmptyMap, c, s, None)
            : c \in MetaClocks, s \in Statuses}
      [] f = "main" ->
           {Uniform(D, "B", MaxTime, c, Pending, None)
            : D \in {{}, {"e1"}}, c \in MetaClocks}

\* the readings of the wall clock a merge may take, by family: the families
\* of one kind examine the collections only and keep one reading
WallTimesOf(f) == IF f \in Kinds THEN {100} ELSE WallTimes

\* the records the callers of the mutation API pass in
MutationRecs(kind) == {RecOf(kind, id, v, 1) : id \in PairIds, v \in Vals}

----------------------------------------------------------------------------
(* The lock of ApiState: app_state is an Arc<RwLock<AppState>>             *)
(* (tokio::sync::RwLock), shared by the request handlers.                  *)

\* the request handlers that may be running at one time
Procs == {"h1", "h2"}

\* the lock is held by one writer, by any number of readers, or by nobody
Unlocked == [writer |-> "none", readers |-> {}]

\* a handler that is not inside an operation of ApiState
Idle == [at |-> "idle", op |-> "none", arg |-> << >>]

\* no handler is running and the lock is free
NoHandlers == lock = Unlocked /\ pc = [p \in Procs |-> Idle]

----------------------------------------------------------------------------
(* Actions: one per operation of AppState.                                 *)

Entry(op, arg, result) ==
    [op |-> op, arg |-> arg, pre |-> state, result |-> result]

\* a mutation ends in one of its outcomes
Mutate(op, arg, outcomes) ==
    /\ Len(hist) < MaxOps
    /\ \E o \in outcomes :
          /\ state' = o.state
          /\ hist' = Append(hist, Entry(op, arg, o.result))
    /\ UNCHANGED <<focus, lock, pc>>

AddShow ==
    \E show \in MutationRecs("shows") :
        Mutate("add_show", show, add_show(state, show))

UpdateShow ==
    \E show \in MutationRecs("shows") :
        Mutate("update_show", show, update_show(state, show))

DeleteShow ==
    \E show_id \in PairIds :
        Mutate("delete_show", show_id, delete_show(state, show_id))

AddSong ==
    \E song \in MutationRecs("songs") :
        Mutate("add_song", song, add_song(state, song))

UpdateSong ==
    \E song \in MutationRecs("songs") :
        Mutate("update_song", song, update_song(state, song))

AddPhoto ==
    \E photo \in MutationRecs("photos") :
        Mutate("add_photo", photo, add_photo(state, photo))

AddPost ==
    \E post \in MutationRecs("posts") :
        Mutate("add_post", post, add_post(state, post))

MarkSyncing ==
    /\ Len(hist) < MaxOps
    /\ state' = mark_syncing(state)
    /\ hist' = Append(hist, Entry("mark_syncing", << >>, "Ok"))
    /\ UNCHANGED <<focus, lock, pc>>

\* merge of a snapshot pulled from the edge
MergeStep ==
    \E other \in EdgeSnapshots(focus), now \in WallTimesOf(focus) :
        /\ state' = merge(state, other, now)
        /\ hist' = Append(hist, Entry("merge", [other |-> other, now |-> now], "Ok"))
        /\ UNCHANGED <<focus, lock, pc>>

Merge == Len(hist) < MaxOps /\ MergeStep

\* a pull from the edge that fails: EdgeSync::sync_from_edge returns
\* Err(SyncError), so there is no snapshot to merge; AppState has no
\* operation that takes the error, and the replica stays as it is
SyncFromEdgeErr ==
    /\ Len(hist) < MaxOps
    /\ state' = state
    /\ hist' = Append(hist, Entry("sync_from_edge", << >>, "Err"))
    /\ UNCHANGED <<focus, lock, pc>>

\* the sites the listings are asked for
SiteIds == {SiteOf(v) : v \in Vals}

\* a listing takes &self: it returns a Vec and leaves the replica alone
Listing(op, site_id, rets) ==
    /\ Len(hist) < MaxOps
    /\ \E ret \in rets :
          hist' = Append(hist, Entry(op, [site_id |-> site_id, ret |-> ret], "Ok"))
    /\ state' = state
    /\ UNCHANGED <<focus, lock, pc>>

GetSiteShows ==
    \E site_id \in SiteIds :
        Listing("get_site_shows", site_id, get_site_shows(state, site_id))

GetSiteSongs ==
    \E site_id \in SiteIds :
        Listing("get_site_songs", site_id, get_site_songs(state, site_id))

GetSitePhotos ==
    \E site_id \in SiteIds :
        Listing("get_site_photos", site_id, get_site_photos(state, site_id))

Init ==
    /\ focus = "main"
    /\ state \in StoredReplicas(focus)
    /\ hist = << >>
    /\ NoHandlers

Next ==
    \/ AddShow
    \/ UpdateShow
    \/ DeleteShow
    \/ AddSong
    \/ UpdateSong
    \/ AddPhoto
    \/ AddPost
    \/ MarkSyncing
    \/ Merge
    \/ SyncFromEdgeErr
    \/ GetSiteShows
    \/ GetSiteSongs
    \/ GetSitePhotos

Spec == Init /\ [][Next]_vars

(* SpecMerge: merge a first snapshot, then a second one.                   *)

MergeFirst == Len(hist) = 0 /\ MergeStep

MergeSecond == Len(hist) = 1 /\ MergeStep

InitMerge ==
    /\ focus \in Families
    /\ state \in StoredReplicas(focus)
    /\ hist = << >>
    /\ NoHandlers

NextMerge == MergeFirst \/ MergeSecond

SpecMerge == InitMerge /\ [][NextMerge]_vars

----------------------------------------------------------------------------
(* One sync attempt: the caller marks the replica as syncing, pulls the    *)
(* snapshot of the edge without holding the replica, and merges it; a      *)
(* local mutation may get in between mark_syncing and the merge.           *)

SyncBegin == Len(hist) = 0 /\ MarkSyncing

\* a mutation by another caller while the pull is under way
SyncMutation ==
    /\ Len(hist) = 1
    /\ \/ AddShow
       \/ UpdateShow
       \/ DeleteShow
       \/ AddSong
       \/ UpdateSong
       \/ AddPhoto
       \/ AddPost

\* the merge that completes the attempt
SyncMerge ==
    /\ Len(hist) \in {1, 2}
    /\ hist[Len(hist)].op # "merge"
    /\ MergeStep

NextSync == SyncBegin \/ SyncMutation \/ SyncMerge

\* the attempt starts from the replicas Spec starts from
SpecSync == Init /\ [][NextSync]_vars

----------------------------------------------------------------------------
(* The API layer (crate web_nexus_api, src/api/src/lib.rs).  ApiState      *)
(* holds the replica behind a lock; each of its operations takes the lock  *)
(* on entry and works on the AppState inside it.  An operation is given    *)
(* here as a function of that AppState, yielding the AppState it leaves    *)
(* and its result.                                                         *)

ApiState_new == AppState_new

ApiState_create_show(self, show) ==
    [state  |-> [self EXCEPT !.shows = Insert(@, show.id, show)],
     result |-> "Ok"]

\* mutant: update_show without the contains_key test
ApiState_update_show_upsert(self, id, show) ==
    [state  |-> [self EXCEPT !.shows = Insert(@, id, show)],
     result |-> "Ok"]

ApiState_update_show(self, id, show) ==
    IF id \notin DOMAIN self.shows
    THEN [state |-> self, result |-> "NotFound"]
    ELSE [state  |-> [self EXCEPT !.shows = Insert(@, id, show)],
          result |-> "Ok"]

ApiState_delete_show(self, id) ==
    IF id \in DOMAIN self.shows
    THEN [state |-> [self EXCEPT !.shows = Remove(@, id)], result |-> "Ok"]
    ELSE [state |-> self, result |-> "NotFound"]

ApiState_create_song(self, song) ==
    [state  |-> [self EXCEPT !.songs = Insert(@, song.id, song)],
     result |-> "Ok"]

ApiState_create_post(self, post) ==
    [state  |-> [self EXCEPT !.posts = Insert(@, post.id, post)],
     result |-> "Ok"]

ApiState_update_post(self, id, post) ==
    IF id \notin DOMAIN self.posts
    THEN [state |-> self, result |-> "NotFound"]
    ELSE [state  |-> [self EXCEPT !.posts = Insert(@, id, post)],
          result |-> "Ok"]

ApiState_delete_post(self, id) ==
    IF id \in DOMAIN self.posts
    THEN [state |-> [self EXCEPT !.posts = Remove(@, id)], result |-> "Ok"]
    ELSE [state |-> self, result |-> "NotFound"]

\* the handler of POST /api/photos, from the point where it has built the
\* photo: state.photos.insert(id, photo)
photos_create(self, photo) ==
    [state  |-> [self EXCEPT !.photos = Insert(@, photo.id, photo)],
     result |-> "Ok"]

\* the handler of POST /api/videos, likewise
videos_create(self, video) ==
    [state  |-> [self EXCEPT !.videos = Insert(@, video.id, video)],
     result |-> "Ok"]

\* the entities the callers of ApiState pass in
ApiRecs(kind) == MutationRecs(kind)

\* what uuid::Uuid::new_v4() may return to a create handler: an id that no
\* entry of the collection has yet
NewIds(map) == PairIds \ DOMAIN map

(* SpecApi: an ApiState made by ApiState::new(), driven by any sequence of *)
(* its writing operations and of the photo and video create handlers.      *)

ApiStep(op, arg, out) ==
    /\ Len(hist) < MaxOps
    /\ state' = out.state
    /\ hist' = Append(hist, Entry(op, arg, out.result))
    /\ UNCHANGED <<focus, lock, pc>>

CreateShow ==
    \E show \in ApiRecs("shows") :
        ApiStep("ApiState::create_show", show,
                ApiState_create_show(state, show))

ApiUpdateShow ==
    \E id \in PairIds, show \in ApiRecs("shows") :
        ApiStep("ApiState::update_show", [id |-> id, show |-> show],
                ApiState_update_show(state, id, show))

ApiDeleteShow ==
    \E id \in PairIds :
        ApiStep("ApiState::delete_show", id, ApiState_delete_show(state, id))

CreateSong ==
    \E song \in ApiRecs("songs") :
        ApiStep("ApiState::create_song", song,
                ApiState_create_song(state, song))

CreatePost ==
    \E post \in ApiRecs("posts") :
        ApiStep("ApiState::create_post", post,
                ApiState_create_post(state, post))

UpdatePost ==
    \E id \in PairIds, post \in ApiRecs("posts") :
        ApiStep("ApiState::update_post", [id |-> id, post |-> post],
                ApiState_update_post(state, id, post))

DeletePost ==
    \E id \in PairIds :
        ApiStep("ApiState::delete_post", id, ApiState_delete_post(state, id))

PhotosCreate ==
    \E id \in NewIds(state.photos), v \in Vals :
        ApiStep("photos::create", Photo(id, v, 1),
                photos_create(state, Photo(id, v, 1)))

VideosCreate ==
    \E id \in NewIds(state.videos), v \in Vals :
        ApiStep("videos::create", Video(id, v, 1),
                videos_create(state, Video(id, v, 1)))

InitApi ==
    /\ focus = "api"
    /\ state = ApiState_new
    /\ hist = << >>
    /\ NoHandlers

NextApi ==
    \/ CreateShow
    \/ ApiUpdateShow
    \/ ApiDeleteShow
    \/ CreateSong
    \/ CreatePost
    \/ UpdatePost
    \/ DeletePost
    \/ PhotosCreate
    \/ VideosCreate

SpecApi == InitApi /\ [][NextApi]_vars

(* SpecLock: the handlers in Procs call the operations of one ApiState.    *)
(* A call waits for the lock, holds it while it works on the replica, and  *)
(* drops it when it returns.                                               *)

\* the operations that only read the replica
ApiReads ==
    {"ApiState::get_show", "ApiState::list_shows", "ApiState::list_songs",
     "ApiState::list_posts", "ApiState::list_photos", "ApiState::list_videos"}

\* the operations that change a collection of the replica
ApiWrites ==
    {"ApiState::create_show", "ApiState::update_show",
     "ApiState::delete_show", "ApiState::create_song",
     "ApiState::create_post", "ApiState::update_post",
     "ApiState::delete_post", "photos::create", "videos::create"}

\* the operations that test for the key before they write
ApiChecked == {"ApiState::update_show", "ApiState::update_post"}

\* mutant: every operation takes the lock with read()
LockMode_read(op) == "read"

\* how an operation takes the lock: self.app_state.read().await or
\* self.app_state.write().await
LockMode(op) ==
    CASE op = "ApiState::get_show"    -> "read"
      [] op = "ApiState::list_shows"  -> "read"
      [] op = "ApiState::create_show" -> "write"
      [] op = "ApiState::update_show" -> "write"
      [] op = "ApiState::delete_show" -> "write"
      [] op = "ApiState::list_songs"  -> "read"
      [] op = "ApiState::create_song" -> "write"
      [] op = "ApiState::list_posts"  -> "read"
      [] op = "ApiState::create_post" -> "write"
      [] op = "ApiState::update_post" -> "write"
      [] op = "ApiState::delete_post" -> "write"
      [] op = "ApiState::list_photos" -> "read"
      [] op = "ApiState::list_videos" -> "read"
      [] op = "photos::create"        -> "write"
      [] op = "videos::create"        -> "write"

\* the collection an operation works on
ApiKind(op) ==
    CASE op \in {"ApiState::get_show", "ApiState::list_shows",
                 "ApiState::create_show", "ApiState::update_show",
                 "ApiState::delete_show"} -> "shows"
      [] op \in {"ApiState::list_songs", "ApiState::create_song"} -> "songs"
      [] op \in {"ApiState::list_posts", "ApiState::create_post",
                 "ApiState::update_post", "ApiState::delete_post"} -> "posts"
      [] op \in {"ApiState::list_photos", "photos::create"} -> "photos"
      [] op \in {"ApiState::list_videos", "videos::create"} -> "videos"

\* the replica an operation leaves
Apply(op, arg, self) ==
    CASE op = "ApiState::create_show" -> ApiState_create_show(self, arg).state
      [] op = "ApiState::update_show" ->
             ApiState_update_show(self, arg.id, arg.rec).state
      [] op = "ApiState::delete_show" -> ApiState_delete_show(self, arg).state
      [] op = "ApiState::create_song" -> ApiState_create_song(self, arg).state
      [] op = "ApiState::create_post" -> ApiState_create_post(self, arg).state
      [] op = "ApiState::update_post" ->
             ApiState_update_post(self, arg.id, arg.rec).state
      [] op = "ApiState::delete_post" -> ApiState_delete_post(self, arg).state
      [] op = "photos::create" -> photos_create(self, arg).state
      [] op = "videos::create" -> videos_create(self, arg).state
      [] op \in ApiReads -> self

\* the entity the handlers of SpecLock write
LockRec(kind) == RecOf(kind, "e1", "A", 1)

\* RwLock::read() is granted while no writer holds the lock, RwLock::write()
\* while nobody holds it
CanRead(l) == l.writer = "none"

CanWrite(l) == l.writer = "none" /\ l.readers = {}

\* the guard of handler p is dropped
Release(l, p, mode) ==
    IF mode = "read"
    THEN [l EXCEPT !.readers = @ \ {p}]
    ELSE [l EXCEPT !.writer = "none"]

\* handler p enters an operation and waits for the lock
Call(p, op, arg) ==
    /\ pc[p].at = "idle"
    /\ pc' = [pc EXCEPT ![p] = [at |-> "acquire", op |-> op, arg |-> arg]]
    /\ UNCHANGED <<state, hist, focus, lock>>

CallRead(p) ==
    \/ Call(p, "ApiState::get_show", "e1")
    \/ \E op \in ApiReads \ {"ApiState::get_show"} : Call(p, op, << >>)

CallWrite(p) ==
    \/ Call(p, "ApiState::create_show", LockRec("shows"))
    \/ Call(p, "ApiState::update_show", [id |-> "e1", rec |-> LockRec("shows")])
    \/ Call(p, "ApiState::delete_show", "e1")
    \/ Call(p, "ApiState::create_song", LockRec("songs"))
    \/ Call(p, "ApiState::create_post", LockRec("posts"))
    \/ Call(p, "ApiState::update_post", [id |-> "e1", rec |-> LockRec("posts")])
    \/ Call(p, "ApiState::delete_post", "e1")
    \/ \E id \in NewIds(state.photos) : Call(p, "photos::create", Photo(id, "A", 1))
    \/ \E id \in NewIds(state.videos) : Call(p, "videos::create", Video(id, "A", 1))

\* the lock is granted to handler p
AcquireRead(p) ==
    /\ pc[p].at = "acquire"
    /\ LockMode(pc[p].op) = "read"
    /\ CanRead(lock)
    /\ lock' = [lock EXCEPT !.readers = @ \cup {p}]
    /\ pc' = [pc EXCEPT ![p].at = "held"]
    /\ UNCHANGED <<state, hist, focus>>

AcquireWrite(p) ==
    /\ pc[p].at = "acquire"
    /\ LockMode(pc[p].op) = "write"
    /\ CanWrite(lock)
    /\ lock' = [lock EXCEPT !.writer = p]
    /\ pc' = [pc EXCEPT ![p].at = "held"]
    /\ UNCHANGED <<state, hist, focus>>

\* update_show and update_post: contains_key; when the key is missing the
\* operation returns NotFound and its guard is dropped
Check(p) ==
    /\ pc[p].at = "held"
    /\ pc[p].op \in ApiChecked
    /\ IF pc[p].arg.id \in DOMAIN state[ApiKind(pc[p].op)]
       THEN /\ pc' = [pc EXCEPT ![p].at = "checked"]
            /\ lock' = lock
       ELSE /\ pc' = [pc EXCEPT ![p] = Idle]
            /\ lock' = Release(lock, p, LockMode(pc[p].op))
    /\ UNCHANGED <<state, hist, focus>>

\* the rest of the operation: its read or its write of the replica; it
\* returns and its guard is dropped
Finish(p) ==
    /\ \/ pc[p].at = "held" /\ pc[p].op \notin ApiChecked
       \/ pc[p].at = "checked"
    /\ state' = Apply(pc[p].op, pc[p].arg, state)
    /\ lock' = Release(lock, p, LockMode(pc[p].op))
    /\ pc' = [pc EXCEPT ![p] = Idle]
    /\ UNCHANGED <<hist, focus>>

InitLock ==
    /\ focus = "lock"
    /\ state = ApiState_new
    /\ hist = << >>
    /\ NoHandlers

NextLock ==
    \E p \in Procs :
        \/ CallRead(p)
        \/ CallWrite(p)
        \/ AcquireRead(p)
        \/ AcquireWrite(p)
        \/ Check(p)
        \/ Finish(p)

SpecLock == InitLock /\ [][NextLock]_vars

----------------------------------------------------------------------------
(* Serialization: serialize_state is serde_json::to_vec and                *)
(* deserialize_state is serde_json::from_slice, with the Serialize and     *)
(* Deserialize implementations that serde derives from the type            *)
(* definitions.  The bytes are given here as the JSON document they spell. *)

JNull == [null |-> TRUE]
JStr(x) == [string |-> x]
JNum(n) == [number |-> n]
JObj(f) == [object |-> f]
\* bytes that are not a JSON document
Garbage == [garbage |-> TRUE]

\* what kind of document j is
JType(j) == CHOOSE t \in DOMAIN j : TRUE

\* the types that occur in AppState
TStr == [k |-> "String"]
TI64 == [k |-> "i64"]
TU64 == [k |-> "u64"]
TOpt(T) == [k |-> "Option", of |-> T]
TMap(T) == [k |-> "HashMap", of |-> T]
TStruct(name) == [k |-> "struct", name |-> name]
TSyncStatus == [k |-> "SyncStatus"]

\* the fields of each struct, with their types
FieldTypes(name) ==
    CASE name = "AppState" ->
           [sites  |-> TMap(TStruct("Site")),  shows  |-> TMap(TStruct("Show")),
            songs  |-> TMap(TStruct("Song")),  photos |-> TMap(TStruct("Photo")),
            videos |-> TMap(TStruct("Video")), posts  |-> TMap(TStruct("BlogPost")),
            users  |-> TMap(TStruct("User")),
            sync_status |-> TSyncStatus, last_sync |-> TOpt(TI64),
            clock |-> TU64]
      [] name = "Site" -> [id |-> TStr, name |-> TStr, created_at |-> TI64]
      [] name = "Show" ->
           [id |-> TStr, site_id |-> TStr, venue |-> TStr,
            address |-> TOpt(TStr), created_at |-> TI64, updated_at |-> TI64]
      [] name = "Song" ->
           [id |-> TStr, site_id |-> TStr, title |-> TStr, created_at |-> TI64]
      [] name = "Photo" ->
           [id |-> TStr, site_id |-> TStr, caption |-> TStr, uploaded_at |-> TI64]
      [] name = "Video" ->
           [id |-> TStr, site_id |-> TStr, title |-> TStr, published_at |-> TI64]
      [] name = "BlogPost" ->
           [id |-> TStr, site_id |-> TStr, title |-> TStr,
            created_at |-> TI64, updated_at |-> TI64]
      [] name = "User" -> [id |-> TStr, name |-> TStr, created_at |-> TI64]

\* #[serde(rename_all = "camelCase")]
CamelCase(field) ==
    CASE field = "site_id"      -> "siteId"
      [] field = "created_at"   -> "createdAt"
      [] field = "updated_at"   -> "updatedAt"
      [] field = "uploaded_at"  -> "uploadedAt"
      [] field = "published_at" -> "publishedAt"
      [] OTHER -> field

\* the key a field is written under: the entity structs rename their
\* fields, AppState does not
JsonKey(name, field) == IF name = "AppState" THEN field ELSE CamelCase(field)

FieldOf(name, key) ==
    CHOOSE field \in DOMAIN FieldTypes(name) : JsonKey(name, field) = key

\* the outcome of a conversion
Ok(x) == [ok |-> x]
Err(e) == [err |-> e]

IsOk(r) == DOMAIN r = {"ok"}

UnitStatuses == {"Synced", "Pending", "Syncing"}

RECURSIVE to_json(_, _)
\* Serialize, by type
to_json(T, x) ==
    CASE T.k = "String" -> JStr(x)
      [] T.k \in {"i64", "u64"} -> JNum(x)
      [] T.k = "Option" -> IF x = None THEN JNull ELSE to_json(T.of, x[1])
      [] T.k = "HashMap" -> JObj([key \in DOMAIN x |-> to_json(T.of, x[key])])
      [] T.k = "struct" ->
           JObj([key \in {JsonKey(T.name, f) : f \in DOMAIN FieldTypes(T.name)} |->
                   LET f == FieldOf(T.name, key)
                   IN  to_json(FieldTypes(T.name)[f], x[f])])
      [] T.k = "SyncStatus" ->
           IF Len(x) = 1
           THEN JStr(x[1])
           ELSE JObj([key \in {x[1]} |-> JStr(x[2])])

RECURSIVE from_json(_, _)
\* Deserialize, by type: a value of the wrong JSON type, a missing field
\* that is not an Option and an unknown variant are errors; a missing
\* Option field is None; keys that name no field are skipped
from_json(T, j) ==
    CASE T.k = "String" -> IF JType(j) = "string" THEN Ok(j.string) ELSE Err("Serialization")
      [] T.k = "i64" -> IF JType(j) = "number" THEN Ok(j.number) ELSE Err("Serialization")
      [] T.k = "u64" ->
           IF JType(j) = "number" /\ j.number >= 0 THEN Ok(j.number) ELSE Err("Serialization")
      [] T.k = "Option" ->
           IF JType(j) = "null"
           THEN Ok(None)
           ELSE LET r == from_json(T.of, j)
                IN  IF IsOk(r) THEN Ok(Some(r.ok)) ELSE r
      [] T.k = "HashMap" ->
           IF JType(j) = "object"
                 /\ \A key \in DOMAIN j.object : IsOk(from_json(T.of, j.object[key]))
           THEN Ok([key \in DOMAIN j.object |-> from_json(T.of, j.object[key]).ok])
           ELSE Err("Serialization")
      [] T.k = "struct" ->
           LET types == FieldTypes(T.name)
               field(f) ==
                   IF JsonKey(T.name, f) \in DOMAIN j.object
                   THEN from_json(types[f], j.object[JsonKey(T.name, f)])
                   ELSE IF types[f].k = "Option"
                        THEN Ok(None)
                        ELSE Err("Serialization")
           IN  IF JType(j) = "object" /\ \A f \in DOMAIN types : IsOk(field(f))
               THEN Ok([f \in DOMAIN types |-> field(f).ok])
               ELSE Err("Serialization")
      [] T.k = "SyncStatus" ->
           IF JType(j) = "string" /\ j.string \in UnitStatuses
           THEN Ok(<<j.string>>)
           ELSE IF JType(j) = "object" /\ DOMAIN j.object = {"Failed"}
                     /\ JType(j.object["Failed"]) = "string"
                THEN Ok(Failed(j.object["Failed"].string))
                ELSE Err("Serialization")

\* mutant: last_sync is left out of the document
serialize_state_skip_last_sync(self) ==
    LET doc == to_json(TStruct("AppState"), self).object
    IN  Ok(JObj([key \in DOMAIN doc \ {"last_sync"} |-> doc[key]]))

serialize_state(self) == Ok(to_json(TStruct("AppState"), self))

\* mutant: bytes that do not decode give a new, empty AppState
deserialize_state_or_default(data) ==
    LET r == from_json(TStruct("AppState"), data)
    IN  IF IsOk(r) THEN r ELSE Ok(AppState_new)

deserialize_state(data) == from_json(TStruct("AppState"), data)

\* an AppState whose shows carry the optional field address
WithAddress(self, address) ==
    [self EXCEPT !.shows =
        [i \in DOMAIN @ |->
            [f \in (DOMAIN @[i]) \cup {"address"} |->
                IF f = "address" THEN address ELSE @[i][f]]]]

\* the replicas that are serialized: no entity, one or two of every kind,
\* the optional fields empty or set, every status, the clock at both ends
CodecReplicas ==
    {WithAddress(Uniform(D, v, 1, c, st, l), a)
     : D \in {{}, {"e1"}, PairIds}, v \in Vals, c \in {0, ClockMax},
       st \in Statuses, l \in {None, Some(99)}, a \in {None, Some("x")}}

\* bytes that are no AppState document: no JSON at all, a JSON null, an
\* object without the fields, and the document of `self` with its clock
\* removed, turned into a string or negative, or with an unknown status
MalformedBytes(self) ==
    LET doc == serialize_state(self).ok.object
    IN  {Garbage, JNull, JObj(<< >>),
         JObj([key \in DOMAIN doc \ {"clock"} |-> doc[key]]),
         JObj([doc EXCEPT !["clock"] = JStr("1")]),
         JObj([doc EXCEPT !["clock"] = JNum(-1)]),
         JObj([doc EXCEPT !["sync_status"] = JStr("Unknown")])}

(* SpecCodec: two calls of the codec with a replica in memory: the replica *)
(* is serialized, and bytes, either those of the earlier serialization or  *)
(* malformed ones, are deserialized.                                       *)

\* both functions take a reference and return a new value: the replica in
\* memory is not theirs to change
CodecStep(op, arg, result) ==
    /\ Len(hist) \in {0, 1}
    /\ hist' = Append(hist, Entry(op, arg, result))
    /\ state' = state
    /\ UNCHANGED <<focus, lock, pc>>

SerializeState == CodecStep("serialize_state", << >>, serialize_state(state))

DeserializeState ==
    \E i \in 1..Len(hist) :
        /\ hist[i].op = "serialize_state"
        /\ IsOk(hist[i].result)
        /\ CodecStep("deserialize_state", hist[i].result.ok,
                     deserialize_state(hist[i].result.ok))

DeserializeMalformed ==
    \E data \in MalformedBytes(state) :
        CodecStep("deserialize_state", data, deserialize_state(data))

InitCodec ==
    /\ focus = "codec"
    /\ state \in CodecReplicas
    /\ hist = << >>
    /\ NoHandlers

NextCodec ==
    \/ SerializeState
    \/ DeserializeState
    \/ DeserializeMalformed

SpecCodec == InitCodec /\ [][NextCodec]_vars

----------------------------------------------------------------------------
(* The request handlers PUT /api/shows/:id (shows::update) and             *)
(* DELETE /api/shows/:id (shows::delete), and callers of                   *)
(* ApiState::update_post and ApiState::delete_post, running concurrently   *)
(* on one ApiState.  Every operation of ApiState takes the lock when it    *)
(* starts and drops it when it returns; hist records the calls of the      *)
(* writing operations in the order they held the lock.                     *)

\* UpdateShowRequest: the fields the request leaves out are None.  venue
\* and city stand for the four optional fields, which are all applied the
\* same way
UpdateShowRequests ==
    {[venue |-> venue, city |-> city]
     : venue \in {None, Some("B")}, city \in {None, Some("x")}}

\* shows::update between its two calls: the fields of the request are put
\* into the show that get_show returned
update_fields(existing, update_req, now) ==
    [existing EXCEPT
        !.venue = IF update_req.venue # None THEN update_req.venue[1] ELSE @,
        !.address = IF update_req.city # None THEN Some(update_req.city[1]) ELSE @,
        !.updated_at = now]

\* handler p is at `at` of handler `op`
At(p, op, at) == pc[p].at = at /\ pc[p].op = op

\* handler p takes the lock in `mode` and moves on to `at`
Locked(p, mode, at) ==
    /\ IF mode = "read" THEN CanRead(lock) ELSE CanWrite(lock)
    /\ lock' = IF mode = "read"
               THEN [lock EXCEPT !.readers = @ \cup {p}]
               ELSE [lock EXCEPT !.writer = p]
    /\ pc' = [pc EXCEPT ![p].at = at]
    /\ UNCHANGED <<state, hist, focus>>

\* a writing operation of ApiState returns `out` to handler p, which
\* answers the request with its result
Returned(p, call, arg, out) ==
    /\ state' = out.state
    /\ hist' = Append(hist, Entry(call, arg, out.result))
    /\ lock' = Release(lock, p, "write")
    /\ pc' = [pc EXCEPT ![p].at = "done", ![p].response = out.result]
    /\ UNCHANGED focus

\* a request arrives at handler p
Request(p, op, arg) ==
    /\ pc[p].at = "idle"
    /\ pc' = [pc EXCEPT ![p] = [at |-> "start", op |-> op, arg |-> arg,
                                existing |-> None, response |-> "none"]]
    /\ UNCHANGED <<state, hist, focus, lock>>

shows_update_request(p) ==
    \E id \in PairIds, update_req \in UpdateShowRequests :
        Request(p, "shows::update", [id |-> id, update_req |-> update_req])

\* ctx.data.get_show(&id): self.app_state.read().await
shows_update_get_show_lock(p) ==
    /\ At(p, "shows::update", "start")
    /\ Locked(p, LockMode("ApiState::get_show"), "get_show")

\* state.shows.get(id).cloned(); None is answered with NotFound, otherwise
\* the fields are updated in the copy
shows_update_get_show(p) ==
    /\ At(p, "shows::update", "get_show")
    /\ lock' = Release(lock, p, LockMode("ApiState::get_show"))
    /\ IF pc[p].arg.id \in DOMAIN state.shows
       THEN \E now \in WallTimes :
               pc' = [pc EXCEPT
                        ![p].at = "existing",
                        ![p].existing =
                            Some(update_fields(state.shows[pc[p].arg.id],
                                               pc[p].arg.update_req, now))]
       ELSE pc' = [pc EXCEPT ![p].at = "done", ![p].response = "NotFound"]
    /\ UNCHANGED <<state, hist, focus>>

\* ctx.data.update_show(&id, existing.clone()): self.app_state.write().await
shows_update_update_show_lock(p) ==
    /\ At(p, "shows::update", "existing")
    /\ Locked(p, LockMode("ApiState::update_show"), "update_show")

shows_update_update_show(p) ==
    /\ At(p, "shows::update", "update_show")
    /\ Returned(p, "ApiState::update_show",
                [id |-> pc[p].arg.id, rec |-> pc[p].existing[1]],
                ApiState_update_show(state, pc[p].arg.id, pc[p].existing[1]))

shows_delete_request(p) ==
    \E id \in PairIds : Request(p, "shows::delete", [id |-> id])

\* ctx.data.delete_show(&id): self.app_state.write().await
shows_delete_delete_show_lock(p) ==
    /\ At(p, "shows::delete", "start")
    /\ Locked(p, LockMode("ApiState::delete_show"), "delete_show")

shows_delete_delete_show(p) ==
    /\ At(p, "shows::delete", "delete_show")
    /\ Returned(p, "ApiState::delete_show", [id |-> pc[p].arg.id],
                ApiState_delete_show(state, pc[p].arg.id))

\* no handler calls update_post or delete_post; they are public operations
\* of ApiState, called here as they are
posts_request(p) ==
    \E id \in PairIds :
        \/ Request(p, "ApiState::update_post",
                   [id |-> id, rec |-> RecOf("posts", id, "B", 1)])
        \/ Request(p, "ApiState::delete_post", [id |-> id])

\* self.app_state.write().await
posts_lock(p) ==
    /\ pc[p].at = "start" /\ pc[p].op \in {"ApiState::update_post", "ApiState::delete_post"}
    /\ Locked(p, LockMode(pc[p].op), "posts")

posts_return(p) ==
    /\ pc[p].at = "posts" /\ pc[p].op \in {"ApiState::update_post", "ApiState::delete_post"}
    /\ Returned(p, pc[p].op, pc[p].arg,
                IF pc[p].op = "ApiState::update_post"
                THEN ApiState_update_post(state, pc[p].arg.id, pc[p].arg.rec)
                ELSE ApiState_delete_post(state, pc[p].arg.id))

\* the ApiState holds one entity of every kind, e1, created earlier; e2 is
\* an id it does not hold
InitHandlers ==
    /\ focus = "handlers"
    /\ state = WithAddress(Uniform({"e1"}, "A", 1, 0, Synced, None), None)
    /\ hist = << >>
    /\ NoHandlers

NextHandlers ==
    \E p \in Procs :
        \/ shows_update_request(p)
        \/ shows_update_get_show_lock(p)
        \/ shows_update_get_show(p)
        \/ shows_update_update_show_lock(p)
        \/ shows_update_update_show(p)
        \/ shows_delete_request(p)
        \/ shows_delete_delete_show_lock(p)
        \/ shows_delete_delete_show(p)
        \/ posts_request(p)
        \/ posts_lock(p)
        \/ posts_return(p)

SpecHandlers == InitHandlers /\ [][NextHandlers]_vars

----------------------------------------------------------------------------
(* Reading the history.                                                    *)

Steps == 1..Len(hist)

\* the replica after step i
After(i) == IF i = Len(hist) THEN state ELSE hist[i + 1].pre

IsMerge(i) == hist[i].op = "merge"

MutationOps ==
    {"add_show", "update_show", "delete_show", "add_song", "update_song",
     "add_photo", "add_post"}

IsMutation(i) == hist[i].op \in MutationOps

TimestampedKinds == {"sites", "shows", "posts"}

UntimestampedKinds == {"songs", "photos", "videos", "users"}

\* the timestamp that orders the records of a timestamped kind
OrderField(kind) == IF kind = "sites" THEN "created_at" ELSE "updated_at"

\* two AppState values agree on every collection, the clock and sync_status
SameButLastSync(a, b) ==
    [a EXCEPT !.last_sync = None] = [b EXCEPT !.last_sync = None]

----------------------------------------------------------------------------
(* C1: merge is idempotent.  When the snapshot merged second is the one    *)
(* merged first, the replica after the second merge equals the replica     *)
(* after the first in every collection, the clock and sync_status; only    *)
(* last_sync may differ, and it is the wall-clock time of the second merge.*)
C1_MergeIdempotent ==
    (Len(hist) = 2 /\ IsMerge(1) /\ IsMerge(2)
        /\ hist[2].arg.other = hist[1].arg.other)
    => /\ SameButLastSync(state, After(1))
       /\ state.last_sync = Some(hist[2].arg.now)

\* the same snapshot merged twice, the first merge having changed the
\* collections and the second one having moved last_sync
C1_Witness ==
    /\ Len(hist) = 2 /\ IsMerge(1) /\ IsMerge(2)
    /\ hist[2].arg.other = hist[1].arg.other
    /\ After(1).shows # hist[1].pre.shows
    /\ After(1).songs # hist[1].pre.songs
    /\ state.last_sync # After(1).last_sync

(* C2: last-writer-wins merge of sites, shows and posts.  After a merge,   *)
(* every id of the foreign collection holds the foreign record if the id   *)
(* was absent locally or the foreign timestamp (created_at for sites,      *)
(* updated_at for shows and posts) is strictly greater than the local one, *)
(* and the unchanged local record otherwise, equal timestamps included.    *)
C2_LastWriterWins ==
    \A i \in Steps :
        IsMerge(i) =>
            \A kind \in TimestampedKinds :
                LET local   == hist[i].pre[kind]
                    foreign == hist[i].arg.other[kind]
                    merged  == After(i)[kind]
                    f       == OrderField(kind)
                IN  \A id \in DOMAIN foreign :
                        /\ id \in DOMAIN merged
                        /\ merged[id] =
                              IF \/ id \notin DOMAIN local
                                 \/ foreign[id][f] > local[id][f]
                              THEN foreign[id]
                              ELSE local[id]

\* one merge of shows in which e1 is replaced by a newer foreign record and
\* e2, at equal updated_at with other content, is kept
C2_Witness ==
    /\ Len(hist) = 1 /\ IsMerge(1)
    /\ LET local   == hist[1].pre.shows
           foreign == hist[1].arg.other.shows
       IN  /\ DOMAIN local = PairIds /\ DOMAIN foreign = PairIds
           /\ foreign["e1"].updated_at > local["e1"].updated_at
           /\ state.shows["e1"] = foreign["e1"]
           /\ foreign["e2"].updated_at = local["e2"].updated_at
           /\ foreign["e2"] # local["e2"]
           /\ state.shows["e2"] = local["e2"]

(* C3: commutative outcome for timestamped kinds.  Merging s1 then s2     *)
(* into r yields the same sites, shows and posts as merging s2 then s1     *)
(* into r.                                                                 *)
C3_MergeCommutes ==
    (Len(hist) = 2 /\ IsMerge(1) /\ IsMerge(2))
    => LET r     == hist[1].pre
           s1    == hist[1].arg.other
           s2    == hist[2].arg.other
           other == merge(merge(r, s2, hist[2].arg.now), s1, hist[1].arg.now)
       IN  \A kind \in TimestampedKinds : state[kind] = other[kind]

(* C4: remote-always-wins merge of songs, photos, videos and users.  After *)
(* a merge every id of the foreign collection holds the foreign record,    *)
(* whatever the local record and the timestamps of either, and every id    *)
(* present only locally keeps its local record.                            *)
C4_RemoteAlwaysWins ==
    \A i \in Steps :
        IsMerge(i) =>
            \A kind \in UntimestampedKinds :
                LET local   == hist[i].pre[kind]
                    foreign == hist[i].arg.other[kind]
                    merged  == After(i)[kind]
                IN  /\ \A id \in DOMAIN foreign :
                          id \in DOMAIN merged /\ merged[id] = foreign[id]
                    /\ \A id \in (DOMAIN local) \ (DOMAIN foreign) :
                          id \in DOMAIN merged /\ merged[id] = local[id]

\* one merge of songs in which the local e1, with the later created_at, is
\* overwritten by a foreign e1 of other title, and e2, local only, is kept
C4_Witness ==
    /\ Len(hist) = 1 /\ IsMerge(1)
    /\ LET local   == hist[1].pre.songs
           foreign == hist[1].arg.other.songs
       IN  /\ DOMAIN local = PairIds /\ DOMAIN foreign = {"e1"}
           /\ local["e1"].created_at > foreign["e1"].created_at
           /\ local["e1"].title # foreign["e1"].title
           /\ state.songs["e1"] = foreign["e1"]
           /\ state.songs["e2"] = local["e2"]

(* C5: clock monotonicity.  Across any sequence of mutations,            *)
(* mark_syncing and merges the clock of the replica never decreases from   *)
(* one state to the next.                                                  *)
C5_ClockMonotone ==
    \A i \in Steps : After(i).clock >= hist[i].pre.clock

(* C6: a mutation marks the replica pending.  After any add, update or     *)
(* delete that returned, sync_status is Pending whatever it was before,    *)
(* and needs_sync() is true.                                               *)
C6_MutationMarksPending ==
    \A i \in Steps :
        (IsMutation(i) /\ hist[i].result = "Ok")
        => (After(i).sync_status = Pending /\ needs_sync(After(i)))

\* a mutation applied to a replica whose status was Failed, then one applied
\* to the replica it left Pending
C6_Witness ==
    /\ Len(hist) = 2
    /\ hist[1].pre.sync_status = Failed("timeout")
    /\ IsMutation(1) /\ hist[1].result = "Ok"
    /\ hist[2].pre.sync_status = Pending
    /\ IsMutation(2) /\ hist[2].result = "Ok"
    /\ state.sync_status = Pending

\* the collection step i writes and its expected content: the record filed
\* under its id, or the id removed
WrittenBy(i) ==
    LET h == hist[i]
    IN  CASE h.op \in {"add_show", "update_show"} ->
               [kind |-> "shows", map |-> Insert(h.pre.shows, h.arg.id, h.arg)]
          [] h.op = "delete_show" ->
               [kind |-> "shows", map |-> Remove(h.pre.shows, h.arg)]
          [] h.op \in {"add_song", "update_song"} ->
               [kind |-> "songs", map |-> Insert(h.pre.songs, h.arg.id, h.arg)]
          [] h.op = "add_photo" ->
               [kind |-> "photos", map |-> Insert(h.pre.photos, h.arg.id, h.arg)]
          [] h.op = "add_post" ->
               [kind |-> "posts", map |-> Insert(h.pre.posts, h.arg.id, h.arg)]

(* C7: every mutation advances the clock by exactly 1 and applies its      *)
(* write: after add or update the collection maps rec.id to exactly rec,   *)
(* after delete_show(id) shows has no entry for id; n mutations on a fresh *)
(* replica leave clock = n.                                                *)
C7_MutationAdvancesAndWrites ==
    /\ \A i \in Steps :
          (IsMutation(i) /\ hist[i].result = "Ok") =>
              /\ After(i).clock - 1 = hist[i].pre.clock
              /\ After(i)[WrittenBy(i).kind] = WrittenBy(i).map
    /\ (/\ Len(hist) >= 1
        /\ hist[1].pre = AppState_new
        /\ \A i \in Steps : IsMutation(i) /\ hist[i].result = "Ok")
       => state.clock = Len(hist)

(* C8: post-merge metadata.  After a merge the clock is the maximum of    *)
(* the old local clock and the foreign clock, sync_status is Synced        *)
(* whatever the prior status and the foreign status were, last_sync is     *)
(* set, and the merge ended without an error.                              *)
C8_PostMergeMetadata ==
    \A i \in Steps :
        IsMerge(i) =>
            LET local   == hist[i].pre
                foreign == hist[i].arg.other
                merged  == After(i)
            IN  /\ merged.clock >= local.clock
                /\ merged.clock >= foreign.clock
                /\ merged.clock \in {local.clock, foreign.clock}
                /\ merged.sync_status = Synced
                /\ merged.last_sync # None
                /\ merged.last_sync = Some(hist[i].arg.now)
                /\ hist[i].result = "Ok"

\* a merge into a replica whose status was Failed of a snapshot whose
\* status is Syncing, then a merge of a snapshot with a smaller clock
C8_Witness ==
    /\ Len(hist) = 2 /\ IsMerge(1) /\ IsMerge(2)
    /\ hist[1].pre.sync_status = Failed("timeout")
    /\ hist[1].arg.other.sync_status = Syncing
    /\ hist[1].arg.other.clock > hist[1].pre.clock
    /\ hist[2].arg.other.clock < hist[2].pre.clock
    /\ state.clock = hist[1].arg.other.clock
    /\ state.sync_status = Synced

(* C9: the outcome of a merge does not depend on which replica performs    *)
(* it.  For replicas A and B, the sites, shows and posts obtained by       *)
(* merging B's snapshot into A equal those obtained by merging A's         *)
(* snapshot into B.                                                        *)
C9_MergeSymmetric ==
    \A i \in Steps :
        IsMerge(i) =>
            LET a    == hist[i].pre
                b    == hist[i].arg.other
                b_a  == merge(b, a, hist[i].arg.now)
            IN  \A kind \in TimestampedKinds : After(i)[kind] = b_a[kind]

(* C10: merge loses nothing.  In every collection the ids after a merge    *)
(* are the union of the local and the foreign ids, and every local record  *)
(* whose id does not occur in the foreign collection is unchanged.         *)
C10_MergeLosesNothing ==
    \A i \in Steps :
        IsMerge(i) =>
            \A kind \in Kinds :
                LET local   == hist[i].pre[kind]
                    foreign == hist[i].arg.other[kind]
                    merged  == After(i)[kind]
                IN  /\ DOMAIN merged = (DOMAIN local) \cup (DOMAIN foreign)
                    /\ \A id \in (DOMAIN local) \ (DOMAIN foreign) :
                          merged[id] = local[id]

\* a merge of a snapshot that partially overlaps the replica, in every
\* collection: e1 local only, e2 on both sides, e3 foreign only
C10_Witness ==
    /\ Len(hist) = 1 /\ IsMerge(1)
    /\ \A kind \in Kinds :
          /\ DOMAIN hist[1].pre[kind] = {"e1", "e2"}
          /\ DOMAIN hist[1].arg.other[kind] = {"e2", "e3"}
          /\ DOMAIN state[kind] = Ids
          /\ state[kind]["e1"] = hist[1].pre[kind]["e1"]

(* C11: add and update are one operation.  Every add_show step ends in an  *)
(* outcome (result and resulting replica) of update_show on the same       *)
(* replica and record, every update_show step in an outcome of add_show,   *)
(* and the two have the same outcomes; likewise add_song and update_song.  *)
(* This holds whether or not the record's id was in the collection, and    *)
(* the result never tells which.                                           *)
C11_AddIsUpdate ==
    \A i \in Steps :
        LET h   == hist[i]
            out == [state |-> After(i), result |-> h.result]
        IN  /\ h.op = "add_show" =>
                  /\ out \in update_show(h.pre, h.arg)
                  /\ add_show(h.pre, h.arg) = update_show(h.pre, h.arg)
            /\ h.op = "update_show" =>
                  /\ out \in add_show(h.pre, h.arg)
                  /\ update_show(h.pre, h.arg) = add_show(h.pre, h.arg)
            /\ h.op = "add_song" =>
                  /\ out \in update_song(h.pre, h.arg)
                  /\ add_song(h.pre, h.arg) = update_song(h.pre, h.arg)
            /\ h.op = "update_song" =>
                  /\ out \in add_song(h.pre, h.arg)
                  /\ update_song(h.pre, h.arg) = add_song(h.pre, h.arg)

\* update_show of a show whose id is not in the collection, then add_show
\* of a show whose id is
C11_Witness ==
    /\ Len(hist) = 2
    /\ hist[1].op = "update_show" /\ hist[1].result = "Ok"
    /\ hist[1].arg.id \notin DOMAIN hist[1].pre.shows
    /\ hist[2].op = "add_show" /\ hist[2].result = "Ok"
    /\ hist[2].arg.id \in DOMAIN hist[2].pre.shows
    /\ hist[2].arg.id # hist[1].arg.id

\* the collections of an AppState
Collections(s) == [kind \in Kinds |-> s[kind]]

\* step i is a delete_show of an id that is not in shows
DeletesAbsent(i) ==
    hist[i].op = "delete_show" /\ hist[i].arg \notin DOMAIN hist[i].pre.shows

(* C12, as stated: delete_show(id) with id absent from shows returns Ok    *)
(* and leaves the replica state as it was, so the replica after a second   *)
(* delete_show(id) is the replica after the first.                         *)
C12_DeleteAbsentNoOp ==
    \A i \in Steps :
        DeletesAbsent(i) => (hist[i].result = "Ok" /\ After(i) = hist[i].pre)

(* C12, amended: delete_show(id) with id absent from shows reports no      *)
(* error and leaves every collection and last_sync as they were, but it is *)
(* not a no-op on the replica: when it returns it has changed the clock    *)
(* and set sync_status to Pending.  A second delete_show(id) therefore     *)
(* leaves the collections, not the replica, as the first left them.        *)
C12_DeleteAbsentKeepsCollections ==
    \A i \in Steps :
        DeletesAbsent(i) =>
            /\ hist[i].result \in {"Ok", "panic"}
            /\ Collections(After(i)) = Collections(hist[i].pre)
            /\ After(i).last_sync = hist[i].pre.last_sync
            /\ hist[i].result = "Ok" =>
                  /\ After(i).clock # hist[i].pre.clock
                  /\ After(i).sync_status = Pending
            /\ hist[i].result = "panic" => After(i) = hist[i].pre

\* delete_show of one id twice on a fresh replica: the second finds the
\* id absent as the first did, and the clock has moved twice
C12_Witness ==
    /\ Len(hist) = 2
    /\ hist[1].pre = AppState_new
    /\ DeletesAbsent(1) /\ DeletesAbsent(2)
    /\ hist[1].arg = hist[2].arg
    /\ hist[1].result = "Ok" /\ hist[2].result = "Ok"
    /\ state.clock = 2
    /\ state.shows = EmptyMap

\* step i takes sync_status from a value other than Synced to Synced
EntersSynced(i) ==
    After(i).sync_status = Synced /\ hist[i].pre.sync_status # Synced

(* C13, as stated: sync_status becomes Synced only by a merge performed    *)
(* while the status is Syncing: only a merge sets Synced and last_sync,    *)
(* and in every step that enters Synced the previous status is Syncing.    *)
C13_SyncedOnlyFromSyncing ==
    \A i \in Steps :
        /\ EntersSynced(i) =>
              (IsMerge(i) /\ hist[i].pre.sync_status = Syncing)
        /\ After(i).last_sync # hist[i].pre.last_sync => IsMerge(i)

(* C13, amended: sync_status becomes Synced only by a merge, and merge is  *)
(* the only operation that sets Synced and last_sync; but merge does not   *)
(* look at the status: it sets Synced from Pending, Syncing, Failed and    *)
(* Synced alike.                                                           *)
C13_SyncedOnlyByMerge ==
    \A i \in Steps :
        /\ EntersSynced(i) => IsMerge(i)
        /\ After(i).last_sync # hist[i].pre.last_sync => IsMerge(i)
        /\ IsMerge(i) =>
              /\ After(i).sync_status = Synced
              /\ After(i).last_sync = Some(hist[i].arg.now)

\* a mutation leaves the replica Pending and a merge, with no mark_syncing
\* in between, takes it to Synced
C13_Witness ==
    /\ Len(hist) = 2
    /\ IsMutation(1) /\ hist[1].result = "Ok"
    /\ IsMerge(2)
    /\ hist[2].pre.sync_status = Pending
    /\ EntersSynced(2)
    /\ state.last_sync # hist[2].pre.last_sync

IsMarkSyncing(i) == hist[i].op = "mark_syncing"

(* C14, as stated: from Synced the only status change is to Pending by a   *)
(* mutation; no step takes Synced to Syncing or Failed, and mark_syncing   *)
(* begins only from Pending or Failed.                                     *)
C14_SyncedLeavesByMutationOnly ==
    \A i \in Steps :
        /\ (hist[i].pre.sync_status = Synced /\ After(i).sync_status # Synced)
              => (IsMutation(i) /\ After(i).sync_status = Pending)
        /\ IsMarkSyncing(i) =>
              hist[i].pre.sync_status \in {Pending, Failed("timeout")}

(* C14, amended: from Synced the status changes to Pending by a mutation   *)
(* and to Syncing by mark_syncing, which is not guarded and sets Syncing   *)
(* from every status, Synced included, touching nothing else; no step      *)
(* takes Synced to Failed.                                                 *)
C14_SyncedLeavesByMutationOrMarkSyncing ==
    \A i \in Steps :
        /\ IsMarkSyncing(i) =>
              After(i) = [hist[i].pre EXCEPT !.sync_status = Syncing]
        /\ hist[i].pre.sync_status = Synced =>
              /\ After(i).sync_status \in {Synced, Pending, Syncing}
              /\ After(i).sync_status = Pending => IsMutation(i)
              /\ After(i).sync_status = Syncing => IsMarkSyncing(i)

\* mark_syncing on a fresh replica: Synced goes to Syncing
C14_Witness ==
    /\ Len(hist) >= 1
    /\ hist[1].pre = AppState_new
    /\ IsMarkSyncing(1)
    /\ After(1).sync_status = Syncing

\* step i is a pull from the edge that failed
IsFailedPull(i) == hist[i].op = "sync_from_edge" /\ hist[i].result = "Err"

IsFailed(status) == status[1] = "Failed"

(* C15: a sync attempt that fails moves sync_status from Syncing to        *)
(* Failed(reason); Failed is entered only from Syncing; a retry            *)
(* (mark_syncing) moves Failed to Syncing.  A replica whose attempt failed *)
(* is thereby told apart from one whose attempt is still in flight.        *)
C15_FailedAttemptMarksFailed ==
    \A i \in Steps :
        /\ (IsFailedPull(i) /\ hist[i].pre.sync_status = Syncing)
              => IsFailed(After(i).sync_status)
        /\ (IsFailed(After(i).sync_status)
                /\ ~IsFailed(hist[i].pre.sync_status))
              => hist[i].pre.sync_status = Syncing
        /\ (IsMarkSyncing(i) /\ IsFailed(hist[i].pre.sync_status))
              => After(i).sync_status = Syncing

\* the states the replica has been in, the current one included
StatesSoFar == {state} \cup {hist[i].pre : i \in Steps}

(* C16, as stated: the clock is a change signal.  Whenever a mutation or a merge      *)
(* changes the content of a collection the clock strictly increases, so    *)
(* two states of one replica with equal clocks have equal collections.     *)
C16_ClockIsChangeSignal ==
    /\ \A i \in Steps :
          ((IsMutation(i) \/ IsMerge(i))
              /\ Collections(After(i)) # Collections(hist[i].pre))
          => After(i).clock > hist[i].pre.clock
    /\ \A s, t \in StatesSoFar :
          s.clock = t.clock => Collections(s) = Collections(t)

(* C16, amended: the clock is a coarse change signal only.  A mutation     *)
(* that returns changes the clock.  A merge leaves the clock at the        *)
(* maximum of the local and the foreign clock, never lower, so a merge of  *)
(* a snapshot whose clock is not above the local one leaves the clock as   *)
(* it was whatever it does to the collections: two states of one replica   *)
(* with equal clocks may have different collections.                       *)
C16_ClockIsCoarseSignal ==
    \A i \in Steps :
        /\ (IsMutation(i) /\ hist[i].result = "Ok")
              => After(i).clock # hist[i].pre.clock
        /\ IsMerge(i) =>
              /\ After(i).clock = Max(hist[i].pre.clock, hist[i].arg.other.clock)
              /\ After(i).clock >= hist[i].pre.clock
              /\ hist[i].arg.other.clock <= hist[i].pre.clock
                    => After(i).clock = hist[i].pre.clock

\* a merge that changes the collections and leaves the clock as it was,
\* then a merge of a snapshot with a larger clock
C16_Witness ==
    /\ Len(hist) = 2
    /\ IsMerge(1)
    /\ Collections(After(1)) # Collections(hist[1].pre)
    /\ After(1).clock = hist[1].pre.clock
    /\ IsMerge(2)
    /\ state.clock > hist[2].pre.clock

IsApiWrite(i) == hist[i].op \in ApiWrites

\* the replica as the last merge left it or, with no merge so far, as it
\* was at the start
AtLastMerge ==
    LET merges == {i \in Steps : IsMerge(i)}
    IN  IF merges # {}
        THEN After(CHOOSE i \in merges : \A j \in merges : j <= i)
        ELSE IF hist = << >> THEN state ELSE hist[1].pre

(* C17: the replica is mutated only through the mutation API or the       *)
(* merge.  Every operation of the API layer that changes a collection      *)
(* leaves the clock advanced by one and sync_status = Pending, so no       *)
(* state has sync_status = Synced with collections that differ from those  *)
(* at the last merge or at creation.                                       *)
C17_ApiWritesThroughMutationApi ==
    /\ \A i \in Steps :
          (IsApiWrite(i) /\ Collections(After(i)) # Collections(hist[i].pre))
          => /\ After(i).clock - 1 = hist[i].pre.clock
             /\ After(i).sync_status = Pending
    /\ state.sync_status = Synced
          => Collections(state) = Collections(AtLastMerge)

\* an AppState as C19 describes a fresh one
LooksFresh(s) ==
    /\ \A kind \in Kinds : DOMAIN s[kind] = {}
    /\ s.sync_status = Synced
    /\ s.clock = 0
    /\ s.last_sync = None
    /\ ~needs_sync(s)

(* C19: a fresh replica, as AppState::new() or AppState::default() makes   *)
(* it and as ApiState::new() holds it before any operation, has every      *)
(* collection empty, sync_status = Synced, clock = 0 and last_sync = None, *)
(* and needs_sync() is false.                                              *)
C19_FreshReplica ==
    /\ hist = << >> => LooksFresh(state)
    /\ \A i \in Steps : i = 1 => LooksFresh(hist[i].pre)
    /\ LooksFresh(AppState_default)

\* the replica of a new ApiState, before its first operation
C19_Witness ==
    /\ hist = << >>
    /\ state = AppState_new
    /\ state.clock = 0
    /\ ~needs_sync(state)

\* the collection a listing reads
ListedKind(op) ==
    CASE op = "get_site_shows"  -> "shows"
      [] op = "get_site_songs"  -> "songs"
      [] op = "get_site_photos" -> "photos"

IsListing(i) ==
    hist[i].op \in {"get_site_shows", "get_site_songs", "get_site_photos"}

(* C20: scoped listing.  get_site_shows(x), get_site_songs(x) and          *)
(* get_site_photos(x) return the records of their collection whose         *)
(* site_id is x and no others, each once, in some order, and leave the     *)
(* replica unchanged; get_site_shows(s.site_id) right after add_show(s)    *)
(* returns s among them.                                                   *)
C20_ScopedListing ==
    /\ \A i \in Steps :
          IsListing(i) =>
              LET map  == hist[i].pre[ListedKind(hist[i].op)]
                  x    == hist[i].arg.site_id
                  ret  == hist[i].arg.ret
                  want == {id \in DOMAIN map : map[id].site_id = x}
              IN  /\ After(i) = hist[i].pre
                  /\ \E o \in Orders(want) :
                        ret = [k \in 1..Cardinality(want) |-> map[o[k]]]
                  /\ \A k \in 1..Len(ret) : ret[k].site_id = x
    /\ \A i \in Steps :
          (/\ i + 1 \in Steps
           /\ hist[i].op = "add_show" /\ hist[i].result = "Ok"
           /\ hist[i + 1].op = "get_site_shows"
           /\ hist[i + 1].arg.site_id = hist[i].arg.site_id)
          => \E k \in 1..Len(hist[i + 1].arg.ret) :
                hist[i + 1].arg.ret[k] = hist[i].arg

\* add_show(s) on a replica holding a show of another site, then
\* get_site_shows(s.site_id): s is returned and the other show is not
C20_Witness ==
    /\ Len(hist) = 2
    /\ hist[1].op = "add_show" /\ hist[1].result = "Ok"
    /\ hist[2].op = "get_site_shows"
    /\ hist[2].arg.site_id = hist[1].arg.site_id
    /\ hist[2].arg.ret = <<hist[1].arg>>
    /\ Cardinality(DOMAIN state.shows) = 2

\* handler p is inside an operation: it has been granted the lock and has
\* not returned
Inside(p) == pc[p].at \in {"held", "checked"}

Reading(p) == Inside(p) /\ pc[p].op \in ApiReads

Writing(p) == Inside(p) /\ pc[p].op \in ApiWrites

(* C18: lock discipline.  A handler inside a reading operation holds the   *)
(* lock as a reader and a handler inside a writing operation holds it as   *)
(* the writer, from before its first access to the replica until it        *)
(* returns.  Two writers are never inside at once, a writer is never       *)
(* inside together with a reader, so no reader sees a write half done;     *)
(* readers may be inside together.                                         *)
C18_LockDiscipline ==
    /\ \A p \in Procs :
          /\ Reading(p) => p \in lock.readers
          /\ Writing(p) => lock.writer = p
    /\ lock.writer # "none" => lock.readers = {}
    /\ \A p, q \in Procs :
          (p # q /\ Writing(p)) => ~Inside(q)

\* both handlers are inside reading operations at once while shows holds
\* an entry that an earlier writing operation left
C18_Witness ==
    /\ \A p \in Procs : Reading(p)
    /\ lock.readers = Procs
    /\ DOMAIN state.shows # {}

\* a handler is half way through update_show, holding the lock as the
\* writer, while the other waits for the lock
C18_WriterWitness ==
    \E p, q \in Procs :
        /\ Writing(p) /\ pc[p].at = "checked"
        /\ pc[q].at = "acquire"

IsSerialize(i) == hist[i].op = "serialize_state"

IsDeserialize(i) == hist[i].op = "deserialize_state"

C22_DecodeFailure ==
    \A i \in Steps :
        /\ (IsDeserialize(i) /\ hist[i].arg \in MalformedBytes(hist[i].pre))
              => /\ hist[i].result = Err("Serialization")
                 /\ After(i) = hist[i].pre
        /\ IsSerialize(i) => (IsOk(hist[i].result) /\ After(i) = hist[i].pre)

\* bytes that are no JSON and a document without its clock are decoded
\* while a replica with entities is in memory
C22_Witness ==
    /\ Len(hist) = 2
    /\ IsDeserialize(1) /\ hist[1].arg = Garbage
    /\ IsDeserialize(2) /\ JType(hist[2].arg) = "object"
    /\ hist[2].arg \in MalformedBytes(state)
    /\ "shows" \in DOMAIN hist[2].arg.object
    /\ ~IsOk(hist[1].result) /\ ~IsOk(hist[2].result)
    /\ DOMAIN state.shows = PairIds

(* C23: mutations never fail.  Every call of the mutation API returns    *)
(* Ok, also when the clock is at its maximum representable value.          *)
C23_MutationsNeverFail ==
    \A i \in Steps : IsMutation(i) => hist[i].result = "Ok"

(* C24: an abandoned sync is never rolled back.  After mark_syncing the   *)
(* status is Syncing and needs_sync() is false, and both stay so across    *)
(* every step that is neither a mutation nor a merge; the status leaves    *)
(* Syncing only to Pending by a mutation or to Synced by a merge, never to *)
(* Failed.                                                                 *)
C24_AbandonedSyncStays ==
    \A i \in Steps :
        /\ IsMarkSyncing(i)
              => (After(i).sync_status = Syncing /\ ~needs_sync(After(i)))
        /\ (hist[i].pre.sync_status = Syncing /\ ~IsMutation(i) /\ ~IsMerge(i))
              => (After(i).sync_status = Syncing /\ ~needs_sync(After(i)))
        /\ (hist[i].pre.sync_status = Syncing /\ After(i).sync_status # Syncing)
              => \/ IsMutation(i) /\ After(i).sync_status = Pending
                 \/ IsMerge(i) /\ After(i).sync_status = Synced

\* a replica with a pending change starts a sync whose pull then fails:
\* nothing puts it back to Pending
C24_Witness ==
    /\ Len(hist) = 2
    /\ hist[1].pre.sync_status = Failed("timeout")
    /\ IsMarkSyncing(1)
    /\ IsFailedPull(2)
    /\ state.sync_status = Syncing
    /\ ~needs_sync(state)

(* C26: deletions are not propagated by merge.  No merge removes an id    *)
(* from any collection, and when delete_show(id) is followed by the merge  *)
(* of a snapshot that contains id, the show is present again, with the     *)
(* record of the snapshot.                                                 *)
C26_MergeResurrectsDeleted ==
    /\ \A i \in Steps :
          IsMerge(i) =>
              \A kind \in Kinds : DOMAIN hist[i].pre[kind] \subseteq DOMAIN After(i)[kind]
    /\ \A i \in Steps :
          (/\ i < Len(hist)
           /\ hist[i].op = "delete_show" /\ hist[i].result = "Ok"
           /\ IsMerge(i + 1)
           /\ hist[i].arg \in DOMAIN hist[i + 1].arg.other.shows)
          => /\ hist[i].arg \in DOMAIN After(i + 1).shows
             /\ After(i + 1).shows[hist[i].arg] = hist[i + 1].arg.other.shows[hist[i].arg]

\* show e1 of the loaded replica is deleted, and the merge of a snapshot
\* that still has e1 brings it back with the content of the snapshot
C26_Witness ==
    /\ Len(hist) = 2
    /\ hist[1].op = "delete_show" /\ hist[1].arg = "e1" /\ hist[1].result = "Ok"
    /\ "e1" \in DOMAIN hist[1].pre.shows
    /\ "e1" \notin DOMAIN hist[2].pre.shows
    /\ IsMerge(2)
    /\ "e1" \in DOMAIN hist[2].arg.other.shows
    /\ "e1" \in DOMAIN state.shows
    /\ state.shows["e1"] = hist[2].arg.other.shows["e1"]
    /\ state.shows["e1"] # hist[1].pre.shows["e1"]

\* the id step i writes at
WrittenId(i) == IF hist[i].op = "delete_show" THEN hist[i].arg ELSE hist[i].arg.id

(* C28: the frame of a mutation.  A mutation changes nothing but the entry *)
(* at its record's id in the collection of its kind, the clock and the     *)
(* status: every other entry of that collection, every other collection    *)
(* and last_sync are as before.  No mutation changes sites, users or       *)
(* videos, and on a replica made by AppState::new() last_sync is None      *)
(* until the first merge.                                                  *)
C28_MutationFrame ==
    /\ \A i \in Steps :
          IsMutation(i) =>
              LET pre  == hist[i].pre
                  post == After(i)
                  own  == WrittenBy(i).kind
              IN  /\ \A kind \in Kinds \ {own} : post[kind] = pre[kind]
                  /\ (DOMAIN post[own]) \ {WrittenId(i)} = (DOMAIN pre[own]) \ {WrittenId(i)}
                  /\ \A id \in (DOMAIN pre[own]) \ {WrittenId(i)} :
                        post[own][id] = pre[own][id]
                  /\ post.last_sync = pre.last_sync
                  /\ \A kind \in {"sites", "users", "videos"} : post[kind] = pre[kind]
    /\ (/\ Len(hist) >= 1
        /\ hist[1].pre = AppState_new
        /\ \A i \in Steps : ~IsMerge(i))
       => state.last_sync = None

\* on the loaded replica, whose last sync is known, show e2 is added next
\* to show e1 and then a song: e1 and the time of the last sync are kept
C28_Witness ==
    /\ Len(hist) = 2
    /\ hist[1].op = "add_show" /\ hist[1].arg.id = "e2" /\ hist[1].result = "Ok"
    /\ "e1" \in DOMAIN hist[1].pre.shows
    /\ hist[1].pre.last_sync = Some(99)
    /\ hist[2].op = "add_song" /\ hist[2].result = "Ok"
    /\ state.shows["e1"] = hist[1].pre.shows["e1"]
    /\ state.shows["e2"] = hist[1].arg
    /\ state.last_sync = Some(99)

(* C25: a local change made while a sync is in flight is not reported as  *)
(* synced.  When a mutation is applied after mark_syncing and before the   *)
(* merge that completes the attempt, needs_sync() is still true after the  *)
(* merge.                                                                  *)
C25_ChangeInFlightStaysPending ==
    \A i \in Steps :
        (/\ i + 2 <= Len(hist)
         /\ IsMarkSyncing(i)
         /\ IsMutation(i + 1) /\ hist[i + 1].result = "Ok"
         /\ IsMerge(i + 2))
        => needs_sync(After(i + 2))

\* every key of every collection of s is the id of the record filed under it
KeyIsId(s) ==
    \A kind \in Kinds : \A key \in DOMAIN s[kind] : s[kind][key].id = key

(* C27: key/id consistency.  After any sequence of operations on the       *)
(* replica, every collection maps each key to a record whose id is that    *)
(* key.                                                                    *)
C27_KeyIdConsistency == KeyIsId(state)

\* handler p has answered a PUT /api/shows/e1 that changed venue and city
\* as given
PutDone(p, venue, city) ==
    /\ At(p, "shows::update", "done")
    /\ pc[p].arg.id = "e1"
    /\ pc[p].arg.update_req = [venue |-> venue, city |-> city]
    /\ pc[p].response = "Ok"

(* C29: no lost update between concurrent show updates.  When two PUT     *)
(* requests for the same show, one changing the venue and one the city,    *)
(* have both been answered with success, the stored show carries both      *)
(* changes.                                                                *)
C29_NoLostUpdate ==
    \A p, q \in Procs :
        (PutDone(p, Some("B"), None) /\ PutDone(q, None, Some("x")))
        => /\ state.shows["e1"].venue = "B"
           /\ state.shows["e1"].address = Some("x")

\* the writing calls that test for the key
IsCheckedCall(i) ==
    hist[i].op \in {"ApiState::update_show", "ApiState::delete_show",
                    "ApiState::update_post", "ApiState::delete_post"}

(* C30: update and delete of an absent id fail without effect.  A call of *)
(* ApiState::update_show, update_post, delete_show or delete_post with an  *)
(* id its collection does not hold returns NotFound and leaves the replica *)
(* as it was; once a delete of a show has succeeded, no update of that     *)
(* show succeeds or brings it back, however the two requests interleave.   *)
C30_AbsentIdFailsWithoutEffect ==
    /\ \A i \in Steps :
          (IsCheckedCall(i) /\ hist[i].arg.id \notin DOMAIN hist[i].pre[ApiKind(hist[i].op)])
          => (hist[i].result = "NotFound" /\ After(i) = hist[i].pre)
    /\ \A i, j \in Steps :
          (/\ i < j
           /\ hist[i].op = "ApiState::delete_show" /\ hist[i].result = "Ok"
           /\ hist[j].op = "ApiState::update_show"
           /\ hist[j].arg.id = hist[i].arg.id)
          => /\ hist[j].result = "NotFound"
             /\ hist[i].arg.id \notin DOMAIN After(j).shows
    /\ \A p \in Procs :
          (At(p, "shows::delete", "done") /\ pc[p].response = "Ok")
          => pc[p].arg.id \notin DOMAIN state.shows

\* a PUT reads show e1, a DELETE removes it, and the update_show of the PUT
\* finds the key gone
C30_Witness ==
    /\ Len(hist) = 2
    /\ hist[1].op = "ApiState::delete_show" /\ hist[1].arg.id = "e1"
    /\ hist[1].result = "Ok"
    /\ hist[2].op = "ApiState::update_show" /\ hist[2].arg.id = "e1"
    /\ hist[2].result = "NotFound"
    /\ \E p \in Procs :
          /\ At(p, "shows::update", "done")
          /\ pc[p].existing # None
          /\ pc[p].response = "NotFound"
    /\ "e1" \notin DOMAIN state.shows

====
